---- MODULE Spec2Model ----
(***************************************************************************)
(* Model of steakDrop.tsx: the epoch monitor (checkEpochAndSendReport,     *)
(* driven by setInterval) and the report cycle (generateAndSendReport).    *)
(* Every await of the source is a suspension point: a pending call of      *)
(* checkEpochAndSendReport is a record whose pc names the await it is      *)
(* suspended on, and the code between two awaits is one atomic action (the *)
(* JavaScript event loop runs it to completion).  Several calls can be     *)
(* pending at once, because setInterval fires whether or not the previous  *)
(* call has resolved: ticks is the bag of the pending calls.               *)
(* The daily heartbeat (sendHeartbeat, beats) and the /status handler      *)
(* (cmds) are modelled the same way.  The reward model                     *)
(* (calculatePenaltyRate, calculateMultiplier) and the table built by      *)
(* getStakeAccounts are operators; FnSpec draws their arguments from       *)
(* bounded sets and applies them.                                          *)
(***************************************************************************)
EXTENDS Integers, Sequences, FiniteSets, Bags, TLC

\* ---- bounds --------------------------------------------------------------
MaxEpoch == 2       \* the chain's epoch runs over 0..MaxEpoch
MaxTicks == 2       \* calls of checkEpochAndSendReport pending at once
MaxDay == 2         \* the calendar day runs over 0..MaxDay
MaxBeats == 2       \* calls of sendHeartbeat pending at once
MaxCmds == 1        \* /status handlers pending at once
MaxAccounts == 3    \* stake accounts in one answer of getParsedProgramAccounts
MaxStaked == 20     \* epochsStaked runs up to MaxStaked
MaxDelta == 2       \* arguments run from MaxDelta below to MaxDelta above a tier

Epochs == 0..MaxEpoch
Days == 0..MaxDay

\* ---- optional values (JavaScript null) -------------------------------------
Null == <<>>
Some(n) == <<n>>
Val(o) == o[1]

\* ---- the steps of one report cycle, in the order of the source -------------
FixedOrder == <<"snapshot", "write", "message", "file", "delete">>

VARIABLES
    chainEpoch,          \* the current epoch of the chain
    lastProcessedEpoch,  \* module variable, Null or Some(epoch)
    files,               \* local files that exist: the epochs e of `${e}.csv`
    started,             \* the epochs generateAndSendReport was called with so far
    ticks,               \* bag of the pending calls of checkEpochAndSendReport
    channel,             \* what TELEGRAM_BROADCAST_CHANNEL received in the last
                         \* step: Some(<<kind, epoch>>), or Null for nothing
    event,               \* what the last step did to a call: it started a report
                         \* cycle, or it returned (how, and with which locals)
    skipped,             \* the epochs some tick passed over: it observed a later
                         \* epoch while lastProcessedEpoch was an earlier one
    today,               \* the calendar day (new Date().toISOString() up to 'T')
    lastHeartbeatDay,    \* module variable, Null or Some(day)
    beats,               \* bag of the pending calls of sendHeartbeat
    heartbeats,          \* the days a heartbeat message was delivered for so far
    cmds,                \* bag of the pending /status handlers
    fnIn,                \* the arguments of a call of one of the pure functions
    fnOut                \* Null, or Some(what that call returned)

\* the state of sendHeartbeat, of the command handlers, of the pure functions
heartbeatVars == <<today, lastHeartbeatDay, beats, heartbeats>>
commandVars == <<cmds>>
functionVars == <<fnIn, fnOut>>

\* the state of checkEpochAndSendReport and generateAndSendReport
monitorVars == <<chainEpoch, lastProcessedEpoch, files, started, ticks, skipped>>

\* what checkEpochAndSendReport and generateAndSendReport never touch
notMonitor == <<heartbeatVars, commandVars, functionVars>>

vars == <<chainEpoch, lastProcessedEpoch, files, started, ticks, channel, event,
          skipped, today, lastHeartbeatDay, beats, heartbeats, cmds, fnIn, fnOut>>

\* A pending call: pc is the await it is suspended on, currentEpoch the local of
\* checkEpochAndSendReport, epoch the parameter of generateAndSendReport; steps,
\* failedStep and delivered record what its report cycle attempted, which step
\* threw, and what it delivered to the channel.  asked is the chain's epoch when
\* the call sent its connection.getEpochInfo() request, while that is pending.
Call(pcv, askedv) ==
    [pc |-> pcv, asked |-> askedv, currentEpoch |-> Null, epoch |-> Null,
     steps |-> <<>>, failedStep |-> "none", delivered |-> {}]

\* checkEpochAndSendReport has just been invoked
NewTick == Call("epochInfo", Some(chainEpoch))

CyclePcs == {"snapEpoch", "snapAccounts", "sendMsg", "sendFile", "sendErr"}

Pending == BagToSet(ticks)

InCycle == {r \in Pending : r.pc \in CyclePcs}

\* The event of a step that neither starts a cycle nor ends a call.
NoEvent == [act |-> "step", tick |-> Call("none", Null)]

\* The event of a step on the call r (r as the step leaves it).
Event(act, r) == [act |-> act, tick |-> r]

OptEpoch == {Null} \cup {Some(e) : e \in Epochs}

\* A pending call of sendHeartbeat: pc is the await it is suspended on,
\* currentDay its local (the day when the call began).
Beat(pcv, day) == [pc |-> pcv, currentDay |-> day]

PendingBeats == BagToSet(beats)

\* A pending /status handler: pc is the await it is suspended on, shown the
\* value of lastProcessedEpoch it put into its status message.
Status(pcv, shownv) == [pc |-> pcv, shown |-> shownv]

PendingCmds == BagToSet(cmds)

\* no pure function is being called
NoCall == [fn |-> "none"]

TypeOK ==
    /\ chainEpoch \in Epochs
    /\ lastProcessedEpoch \in OptEpoch
    /\ files \subseteq Epochs
    /\ started \subseteq Epochs
    /\ IsABag(ticks)
    /\ BagCardinality(ticks) <= MaxTicks
    /\ \A r \in Pending :
         /\ r.pc \in {"epochInfo"} \cup CyclePcs
         /\ r.asked \in OptEpoch
         /\ r.asked # Null <=> r.pc = "epochInfo"
         /\ r.currentEpoch \in OptEpoch
         /\ r.epoch \in OptEpoch
         /\ r.failedStep \in {"none", "snapshot", "write", "message", "file", "delete"}
         /\ r.delivered \subseteq {"message", "file", "notice"}
    /\ channel \in {Null} \cup {Some(m) : m \in {"message", "file", "notice"} \X Epochs}
                      \cup {Some(<<"heartbeat", d>>) : d \in Days}
    /\ event.act \in {"step", "start", "queryFailed", "initial", "noChange",
                      "reported", "cycleThrew",
                      "hbSkipped", "hbFailed", "hbSent",
                      "id", "statusReplied", "statusError", "statusThrew"}
    /\ skipped \subseteq Epochs
    /\ today \in Days
    /\ lastHeartbeatDay \in {Null} \cup {Some(d) : d \in Days}
    /\ IsABag(beats)
    /\ BagCardinality(beats) <= MaxBeats
    /\ \A b \in PendingBeats : b.pc \in {"epochInfo", "send"} /\ b.currentDay \in Days
    /\ heartbeats \subseteq Days
    /\ IsABag(cmds)
    /\ BagCardinality(cmds) <= MaxCmds
    /\ \A c \in PendingCmds :
         /\ c.pc \in {"epochInfo", "reply", "errReply"}
         /\ c.shown \in OptEpoch

Init ==
    /\ chainEpoch = 0
    /\ lastProcessedEpoch = Null
    /\ files = {}
    /\ started = {}
    /\ ticks = EmptyBag
    /\ channel = Null
    /\ event = NoEvent
    /\ skipped = {}
    /\ today = 0
    /\ lastHeartbeatDay = Null
    /\ beats = EmptyBag
    /\ heartbeats = {}
    /\ cmds = EmptyBag
    /\ fnIn = NoCall
    /\ fnOut = Null

\* ---- the chain ---------------------------------------------------------------
\* The epoch number of the chain only grows.
ChainAdvance ==
    /\ chainEpoch < MaxEpoch
    /\ chainEpoch' = chainEpoch + 1
    /\ channel' = Null
    /\ event' = NoEvent
    /\ UNCHANGED <<lastProcessedEpoch, files, started, ticks, skipped, notMonitor>>

\* ---- setupTimers: a tick starts -------------------------------------------
\* setInterval (and the initial call) invokes checkEpochAndSendReport, which
\* runs up to its first await, connection.getEpochInfo().  The answer will be
\* the epoch of the chain at some moment between the request and the answer.
TickFire ==
    /\ BagCardinality(ticks) < MaxTicks
    /\ ticks' = ticks (+) SetToBag({NewTick})
    /\ channel' = Null
    /\ event' = NoEvent
    /\ UNCHANGED <<chainEpoch, lastProcessedEpoch, files, started, skipped, notMonitor>>

\* ---- helpers ---------------------------------------------------------------
\* the call r goes on as r2, suspended on its next await
Suspend(r, r2) == ticks' = (ticks (-) SetToBag({r})) (+) SetToBag({r2})

\* checkEpochAndSendReport returns: its promise resolves and its locals die.
Return(r, how, rEnd) ==
    /\ ticks' = ticks (-) SetToBag({r})
    /\ event' = Event(how, rEnd)

\* bot.sendMessage / bot.sendDocument to TELEGRAM_BROADCAST_CHANNEL resolved.
Deliver(r, kind) == channel' = Some(<<kind, Val(r.epoch)>>)

\* The catch block of generateAndSendReport: log, then await the error notice.
EnterCatch(r, step) ==
    /\ Suspend(r, [r EXCEPT !.failedStep = step,
                            !.steps = Append(@, "notice"),
                            !.pc = "sendErr"])
    /\ channel' = Null
    /\ event' = NoEvent
    /\ UNCHANGED <<chainEpoch, lastProcessedEpoch, files, started, skipped, notMonitor>>

\* generateAndSendReport returned normally to checkEpochAndSendReport, which
\* then assigns lastProcessedEpoch = currentEpoch and returns.
CycleReturned(r, rEnd) ==
    /\ lastProcessedEpoch' = r.currentEpoch
    /\ Return(r, "reported", rEnd)

\* generateAndSendReport threw: the catch of checkEpochAndSendReport logs it.
CycleThrew(r) ==
    /\ Return(r, "cycleThrew", r)
    /\ UNCHANGED lastProcessedEpoch

\* ---- checkEpochAndSendReport ----------------------------------------------
\* connection.getEpochInfo() rejected: caught and logged.
EpochInfoFail(r) ==
    /\ r.pc = "epochInfo"
    /\ Return(r, "queryFailed", [r EXCEPT !.asked = Null])
    /\ channel' = Null
    /\ UNCHANGED <<chainEpoch, lastProcessedEpoch, files, started, skipped, notMonitor>>

\* Mutant of FirstRun: the first-run branch lacks its return and reports at once.
FirstRunReports(r, cur) ==
    LET r2 == [r EXCEPT !.asked = Null,
                        !.currentEpoch = Some(cur),
                        !.epoch = Some(cur),
                        !.steps = <<"snapshot">>,
                        !.pc = "snapEpoch"]
    IN  /\ lastProcessedEpoch' = Some(cur)
        /\ started' = started \cup {cur}
        /\ Suspend(r, r2)
        /\ event' = Event("start", r2)
        /\ UNCHANGED skipped

\* if (lastProcessedEpoch === null) { lastProcessedEpoch = currentEpoch; return; }
FirstRun(r, cur) ==
    /\ lastProcessedEpoch' = Some(cur)
    /\ Return(r, "initial", [r EXCEPT !.asked = Null, !.currentEpoch = Some(cur)])
    /\ UNCHANGED <<started, skipped>>

\* Mutant of EpochHasIncreased: >= for >.
EpochNotDecreased(cur, last) == cur >= last

\* Mutant of EpochHasIncreased: a report only when an epoch was skipped.
EpochHasJumped(cur, last) == cur > last + 1

\* currentEpoch > lastProcessedEpoch
EpochHasIncreased(cur, last) == cur > last

\* generateAndSendReport(lastProcessedEpoch) is called and runs up to the first
\* await of getStakeAccounts, connection.getEpochInfo().
StartReport(r, cur) ==
    LET r2 == [r EXCEPT !.asked = Null,
                        !.currentEpoch = Some(cur),
                        !.epoch = lastProcessedEpoch,
                        !.steps = <<"snapshot">>,
                        !.pc = "snapEpoch"]
    IN  /\ started' = started \cup {Val(lastProcessedEpoch)}
        /\ skipped' = skipped \cup ((Val(lastProcessedEpoch) + 1)..(cur - 1))
        /\ Suspend(r, r2)
        /\ event' = Event("start", r2)
        /\ UNCHANGED lastProcessedEpoch

\* the else branch: log progress only
NoChange(r, cur) ==
    /\ Return(r, "noChange", [r EXCEPT !.asked = Null, !.currentEpoch = Some(cur)])
    /\ UNCHANGED <<lastProcessedEpoch, started, skipped>>

\* connection.getEpochInfo() resolved: currentEpoch is the epoch the chain had
\* at some moment since the request was sent.
EpochInfoOk(r) ==
    /\ r.pc = "epochInfo"
    /\ \E cur \in Val(r.asked)..chainEpoch :
         IF lastProcessedEpoch = Null
           THEN FirstRun(r, cur)
           ELSE IF EpochHasIncreased(cur, Val(lastProcessedEpoch))
                  THEN StartReport(r, cur)
                  ELSE NoChange(r, cur)
    /\ channel' = Null
    /\ UNCHANGED <<chainEpoch, files, notMonitor>>

\* ---- generateAndSendReport ------------------------------------------------
\* getStakeAccounts: connection.getEpochInfo() resolved.
SnapEpochOk(r) ==
    /\ r.pc = "snapEpoch"
    /\ Suspend(r, [r EXCEPT !.pc = "snapAccounts"])
    /\ channel' = Null
    /\ event' = NoEvent
    /\ UNCHANGED <<chainEpoch, lastProcessedEpoch, files, started, skipped, notMonitor>>

\* getStakeAccounts: connection.getEpochInfo() rejected; getStakeAccounts
\* rethrows and generateAndSendReport catches.
SnapEpochFail(r) ==
    /\ r.pc = "snapEpoch"
    /\ EnterCatch(r, "snapshot")

\* getParsedProgramAccounts rejected, or mapping the accounts threw.
SnapAccountsFail(r) ==
    /\ r.pc = "snapAccounts"
    /\ EnterCatch(r, "snapshot")

\* getParsedProgramAccounts resolved: the table and the CSV text are built,
\* fs.writeFileSync(filename) runs (it can throw), and on success the cycle
\* suspends on sendTelegramMessage(message).
SnapAccountsOk(r) ==
    /\ r.pc = "snapAccounts"
    /\ \E writeOk \in BOOLEAN :
         IF writeOk
           THEN /\ files' = files \cup {Val(r.epoch)}
                /\ Suspend(r, [r EXCEPT !.steps = @ \o <<"write", "message">>,
                                        !.pc = "sendMsg"])
           ELSE /\ UNCHANGED files
                /\ Suspend(r, [r EXCEPT !.failedStep = "write",
                                        !.steps = @ \o <<"write", "notice">>,
                                        !.pc = "sendErr"])
    /\ channel' = Null
    /\ event' = NoEvent
    /\ UNCHANGED <<chainEpoch, lastProcessedEpoch, started, skipped, notMonitor>>

\* sendTelegramMessage(message) resolved; the cycle suspends on sendTelegramFile.
SendMsgOk(r) ==
    /\ r.pc = "sendMsg"
    /\ Deliver(r, "message")
    /\ Suspend(r, [r EXCEPT !.delivered = @ \cup {"message"},
                            !.steps = Append(@, "file"),
                            !.pc = "sendFile"])
    /\ event' = NoEvent
    /\ UNCHANGED <<chainEpoch, lastProcessedEpoch, files, started, skipped, notMonitor>>

\* Mutant of SendMsgFail: the rejection is swallowed and the file is sent anyway.
SendMsgFailGoesOn(r) ==
    /\ r.pc = "sendMsg"
    /\ Suspend(r, [r EXCEPT !.failedStep = "message",
                            !.steps = Append(@, "file"),
                            !.pc = "sendFile"])
    /\ channel' = Null
    /\ event' = NoEvent
    /\ UNCHANGED <<chainEpoch, lastProcessedEpoch, files, started, skipped, notMonitor>>

\* sendTelegramMessage(message) rejected (it logs and rethrows).
SendMsgFail(r) ==
    /\ r.pc = "sendMsg"
    /\ EnterCatch(r, "message")

\* sendTelegramFile resolved (the file must exist to be sent); then
\* fs.unlinkSync(filename), and generateAndSendReport returns.
SendFileOk(r) ==
    /\ r.pc = "sendFile"
    /\ Val(r.epoch) \in files
    /\ Deliver(r, "file")
    /\ files' = files \ {Val(r.epoch)}
    /\ CycleReturned(r, [r EXCEPT !.delivered = @ \cup {"file"},
                                  !.steps = Append(@, "delete")])
    /\ UNCHANGED <<chainEpoch, started, skipped, notMonitor>>

\* Mutant of SendFileFail: the catch block only logs and sends no error notice.
SendFileFailSilent(r) ==
    /\ r.pc = "sendFile"
    /\ CycleReturned(r, [r EXCEPT !.failedStep = "file"])
    /\ channel' = Null
    /\ UNCHANGED <<chainEpoch, files, started, skipped, notMonitor>>

\* sendTelegramFile rejected (it logs and rethrows).
SendFileFail(r) ==
    /\ r.pc = "sendFile"
    /\ EnterCatch(r, "file")

\* the error notice was delivered: generateAndSendReport returns.
SendErrOk(r) ==
    /\ r.pc = "sendErr"
    /\ Deliver(r, "notice")
    /\ CycleReturned(r, [r EXCEPT !.delivered = @ \cup {"notice"}])
    /\ UNCHANGED <<chainEpoch, files, started, skipped, notMonitor>>

\* the error notice was rejected: sendTelegramMessage rethrows inside the catch
\* block, so generateAndSendReport rejects.
SendErrFail(r) ==
    /\ r.pc = "sendErr"
    /\ CycleThrew(r)
    /\ channel' = Null
    /\ UNCHANGED <<chainEpoch, files, started, skipped, notMonitor>>

Next ==
    \/ ChainAdvance
    \/ TickFire
    \/ \E r \in Pending : EpochInfoOk(r)
    \/ \E r \in Pending : EpochInfoFail(r)
    \/ \E r \in Pending : SnapEpochOk(r)
    \/ \E r \in Pending : SnapEpochFail(r)
    \/ \E r \in Pending : SnapAccountsOk(r)
    \/ \E r \in Pending : SnapAccountsFail(r)
    \/ \E r \in Pending : SendMsgOk(r)
    \/ \E r \in Pending : SendMsgFail(r)
    \/ \E r \in Pending : SendFileOk(r)
    \/ \E r \in Pending : SendFileFail(r)
    \/ \E r \in Pending : SendErrOk(r)
    \/ \E r \in Pending : SendErrFail(r)

Spec == Init /\ [][Next]_vars

\* ---- fairness: the timer keeps firing, every pending network call settles,
\* ---- and the epoch query does not fail forever
CycleStep ==
    \E r \in Pending :
        \/ SnapEpochOk(r) \/ SnapEpochFail(r)
        \/ SnapAccountsOk(r) \/ SnapAccountsFail(r)
        \/ SendMsgOk(r) \/ SendMsgFail(r)
        \/ SendFileOk(r) \/ SendFileFail(r)
        \/ SendErrOk(r) \/ SendErrFail(r)

LiveSpec ==
    /\ Init /\ [][Next]_vars
    /\ WF_vars(TickFire)
    /\ WF_vars(CycleStep)
    /\ SF_vars(\E r \in Pending : EpochInfoOk(r))

\* ---- sendHeartbeat -------------------------------------------------------------
\* Midnight (UTC) passes.
DayAdvance ==
    /\ today < MaxDay
    /\ today' = today + 1
    /\ channel' = Null
    /\ event' = NoEvent
    /\ UNCHANGED <<lastHeartbeatDay, beats, heartbeats>>
    /\ UNCHANGED <<monitorVars, commandVars, functionVars>>

\* setInterval (and the initial call) invokes sendHeartbeat: it reads the day,
\* and unless lastHeartbeatDay is that day it runs up to its first await,
\* connection.getEpochInfo(); otherwise it returns at once.
HeartbeatFire ==
    /\ BagCardinality(beats) < MaxBeats
    /\ IF lastHeartbeatDay # Some(today)
         THEN /\ beats' = beats (+) SetToBag({Beat("epochInfo", today)})
              /\ event' = NoEvent
         ELSE /\ beats' = beats
              /\ event' = Event("hbSkipped", Beat("return", today))
    /\ channel' = Null
    /\ UNCHANGED <<today, lastHeartbeatDay, heartbeats>>
    /\ UNCHANGED <<monitorVars, commandVars, functionVars>>

\* sendHeartbeat rejects: its catch block logs and rethrows, and the handler of
\* unhandledRejection logs.
HeartbeatThrew(b) ==
    /\ beats' = beats (-) SetToBag({b})
    /\ event' = Event("hbFailed", b)
    /\ channel' = Null
    /\ UNCHANGED <<today, lastHeartbeatDay, heartbeats>>
    /\ UNCHANGED <<monitorVars, commandVars, functionVars>>

\* connection.getEpochInfo() resolved: the message is composed and the call
\* suspends on sendTelegramMessage(message).
HbEpochInfoOk(b) ==
    /\ b.pc = "epochInfo"
    /\ beats' = (beats (-) SetToBag({b})) (+) SetToBag({[b EXCEPT !.pc = "send"]})
    /\ channel' = Null
    /\ event' = NoEvent
    /\ UNCHANGED <<today, lastHeartbeatDay, heartbeats>>
    /\ UNCHANGED <<monitorVars, commandVars, functionVars>>

\* connection.getEpochInfo() rejected.
HbEpochInfoFail(b) ==
    /\ b.pc = "epochInfo"
    /\ HeartbeatThrew(b)

\* Mutant of HbSendOk: the day is assigned to lastProcessedEpoch.
HbSendOkWrongVariable(b) ==
    /\ b.pc = "send"
    /\ channel' = Some(<<"heartbeat", b.currentDay>>)
    /\ heartbeats' = heartbeats \cup {b.currentDay}
    /\ lastProcessedEpoch' = Some(b.currentDay)
    /\ beats' = beats (-) SetToBag({b})
    /\ event' = Event("hbSent", b)
    /\ UNCHANGED <<today, lastHeartbeatDay>>
    /\ UNCHANGED <<chainEpoch, files, started, ticks, skipped>>
    /\ UNCHANGED <<commandVars, functionVars>>

\* sendTelegramMessage(message) resolved: lastHeartbeatDay = currentDay.
HbSendOk(b) ==
    /\ b.pc = "send"
    /\ channel' = Some(<<"heartbeat", b.currentDay>>)
    /\ heartbeats' = heartbeats \cup {b.currentDay}
    /\ lastHeartbeatDay' = Some(b.currentDay)
    /\ beats' = beats (-) SetToBag({b})
    /\ event' = Event("hbSent", b)
    /\ UNCHANGED today
    /\ UNCHANGED <<monitorVars, commandVars, functionVars>>

\* Mutant of HbSendFail: the day is recorded before the delivery is awaited.
HbSendFailDayRecorded(b) ==
    /\ b.pc = "send"
    /\ lastHeartbeatDay' = Some(b.currentDay)
    /\ beats' = beats (-) SetToBag({b})
    /\ event' = Event("hbFailed", b)
    /\ channel' = Null
    /\ UNCHANGED <<today, heartbeats>>
    /\ UNCHANGED <<monitorVars, commandVars, functionVars>>

\* sendTelegramMessage(message) rejected (it logs and rethrows).
HbSendFail(b) ==
    /\ b.pc = "send"
    /\ HeartbeatThrew(b)

HbNext ==
    \/ DayAdvance
    \/ HeartbeatFire
    \/ \E b \in PendingBeats : HbEpochInfoOk(b)
    \/ \E b \in PendingBeats : HbEpochInfoFail(b)
    \/ \E b \in PendingBeats : HbSendOk(b)
    \/ \E b \in PendingBeats : HbSendFail(b)

HbSpec == Init /\ [][HbNext]_vars

\* ---- the command handlers ------------------------------------------------------
\* /id: the handler calls bot.sendMessage(chatId, ...) and returns without
\* awaiting it.
IdCommand ==
    /\ event' = Event("id", Status("return", Null))
    /\ channel' = Null
    /\ UNCHANGED <<cmds, monitorVars, heartbeatVars, functionVars>>

\* the handler c goes on as c2, or returns
StatusGoesOn(c, c2) == cmds' = (cmds (-) SetToBag({c})) (+) SetToBag({c2})

StatusReturns(c, how) ==
    /\ cmds' = cmds (-) SetToBag({c})
    /\ event' = Event(how, c)

\* /status: the handler runs up to its first await, connection.getEpochInfo().
StatusCommand ==
    /\ BagCardinality(cmds) < MaxCmds
    /\ cmds' = cmds (+) SetToBag({Status("epochInfo", Null)})
    /\ event' = NoEvent
    /\ channel' = Null
    /\ UNCHANGED <<monitorVars, heartbeatVars, functionVars>>

\* connection.getEpochInfo() resolved: the status message is composed (it shows
\* lastProcessedEpoch) and the handler suspends on bot.sendMessage.
StatusInfoOk(c) ==
    /\ c.pc = "epochInfo"
    /\ StatusGoesOn(c, Status("reply", lastProcessedEpoch))
    /\ event' = NoEvent
    /\ channel' = Null
    /\ UNCHANGED <<monitorVars, heartbeatVars, functionVars>>

\* connection.getEpochInfo() rejected: the catch block awaits the error reply.
StatusInfoFail(c) ==
    /\ c.pc = "epochInfo"
    /\ StatusGoesOn(c, [c EXCEPT !.pc = "errReply"])
    /\ event' = NoEvent
    /\ channel' = Null
    /\ UNCHANGED <<monitorVars, heartbeatVars, functionVars>>

\* the status message reached the chat that asked.
StatusReplyOk(c) ==
    /\ c.pc = "reply"
    /\ StatusReturns(c, "statusReplied")
    /\ channel' = Null
    /\ UNCHANGED <<monitorVars, heartbeatVars, functionVars>>

\* bot.sendMessage rejected inside the try block: the catch block awaits the
\* error reply.
StatusReplyFail(c) ==
    /\ c.pc = "reply"
    /\ StatusGoesOn(c, [c EXCEPT !.pc = "errReply"])
    /\ event' = NoEvent
    /\ channel' = Null
    /\ UNCHANGED <<monitorVars, heartbeatVars, functionVars>>

\* the error reply reached the chat that asked.
StatusErrOk(c) ==
    /\ c.pc = "errReply"
    /\ StatusReturns(c, "statusError")
    /\ channel' = Null
    /\ UNCHANGED <<monitorVars, heartbeatVars, functionVars>>

\* the error reply was rejected: the handler rejects and the handler of
\* unhandledRejection logs.
StatusErrFail(c) ==
    /\ c.pc = "errReply"
    /\ StatusReturns(c, "statusThrew")
    /\ channel' = Null
    /\ UNCHANGED <<monitorVars, heartbeatVars, functionVars>>

\* ---- main: the timers and the command handlers share one event loop ----------
\* The calls of the three kinds interleave at their awaits; here a timer or a
\* command starts a call only when no call of its own kind is pending.
BotNext ==
    \/ ChainAdvance
    \/ ticks = EmptyBag /\ TickFire
    \/ \E r \in Pending : EpochInfoOk(r)
    \/ \E r \in Pending : EpochInfoFail(r)
    \/ \E r \in Pending : SnapEpochOk(r)
    \/ \E r \in Pending : SnapEpochFail(r)
    \/ \E r \in Pending : SnapAccountsOk(r)
    \/ \E r \in Pending : SnapAccountsFail(r)
    \/ \E r \in Pending : SendMsgOk(r)
    \/ \E r \in Pending : SendMsgFail(r)
    \/ \E r \in Pending : SendFileOk(r)
    \/ \E r \in Pending : SendFileFail(r)
    \/ \E r \in Pending : SendErrOk(r)
    \/ \E r \in Pending : SendErrFail(r)
    \/ DayAdvance
    \/ beats = EmptyBag /\ HeartbeatFire
    \/ \E b \in PendingBeats : HbEpochInfoOk(b)
    \/ \E b \in PendingBeats : HbEpochInfoFail(b)
    \/ \E b \in PendingBeats : HbSendOk(b)
    \/ \E b \in PendingBeats : HbSendFail(b)
    \/ IdCommand
    \/ cmds = EmptyBag /\ StatusCommand
    \/ \E c \in PendingCmds : StatusInfoOk(c)
    \/ \E c \in PendingCmds : StatusInfoFail(c)
    \/ \E c \in PendingCmds : StatusReplyOk(c)
    \/ \E c \in PendingCmds : StatusReplyFail(c)
    \/ \E c \in PendingCmds : StatusErrOk(c)
    \/ \E c \in PendingCmds : StatusErrFail(c)

BotSpec == Init /\ [][BotNext]_vars

\* ---- the reward model ----------------------------------------------------------
TOTAL_REWARD_POOL == 300000000

\* Mutant of calculatePenaltyRate: < for <=.
calculatePenaltyRateStrict(stakeAmount) ==
    IF stakeAmount < 10000 THEN 0
    ELSE IF stakeAmount < 50000 THEN 5
    ELSE 10

\* Stake amounts are in SOL, on the integer grid.
calculatePenaltyRate(stakeAmount) ==
    IF stakeAmount <= 10000 THEN 0
    ELSE IF stakeAmount <= 50000 THEN 5
    ELSE 10

\* Mutant of calculateMultiplier: > for >=.
calculateMultiplierStrict(epochsStaked) ==
    IF epochsStaked > 15 THEN 14
    ELSE IF epochsStaked > 10 THEN 12
    ELSE IF epochsStaked > 6 THEN 11
    ELSE IF epochsStaked > 3 THEN 10
    ELSE 10

\* The multiplier is in tenths: 14 is 1.4.
calculateMultiplier(epochsStaked) ==
    IF epochsStaked >= 15 THEN 14
    ELSE IF epochsStaked >= 10 THEN 12
    ELSE IF epochsStaked >= 6 THEN 11
    ELSE IF epochsStaked >= 3 THEN 10
    ELSE 10

\* ---- getStakeAccounts: from the raw accounts to the reward table --------------
\* deactivationEpoch of a delegation that was never deactivated (u64 max, as text)
NeverDeactivated == "18446744073709551615"

\* a field the chain's answer does not have
Undefined == "undefined"

\* JavaScript truthiness of an optional string
Truthy(x) == x \notin {Undefined, ""}

\* Number(text) of the decimal text of an epoch
Number(text) == CHOOSE n \in 0..MaxStaked : ToString(n) = text

\* a / b in JavaScript: the number times * num / den; den = 0 stands for NaN
\* (0 / 0).  A sum of final stakes is never negative, so x / 0 with x # 0 is
\* Infinity, which has den = 0 and num # 0.
Quotient(a, b, factor) == [num |-> a, den |-> b, times |-> factor]

\* One account of the answer, as the first map makes it.  finalStake is in
\* thousandths: stake * (1 - rate / 100) * multiplier.
Detail(account, index, currentEpoch) ==
    LET stake == account.stake
        activation == account.activation
        deactivation == account.deactivation
        epochsStaked == IF Truthy(activation)
                          THEN currentEpoch - Number(activation)
                          ELSE 0
    IN  [address |-> index,
         originalStake |-> stake,
         penaltyRate |-> calculatePenaltyRate(stake),
         epochsStaked |-> epochsStaked,
         multiplier |-> calculateMultiplier(epochsStaked),
         finalStake |-> stake * (100 - calculatePenaltyRate(stake))
                              * calculateMultiplier(epochsStaked),
         status |-> IF deactivation = NeverDeactivated THEN "Active" ELSE "Inactive",
         activationStatus |-> IF Truthy(activation) THEN "Activated" ELSE "Pending",
         activationEpoch |-> IF Truthy(activation) THEN activation ELSE "null",
         deactivationEpoch |-> IF deactivation = NeverDeactivated
                                 THEN "null" ELSE deactivation]

\* Mutant of IsEligible: the filter forgets the activation status.
IsActive(row) == row.status = "Active"

\* the predicate of the filter
IsEligible(row) == row.status = "Active" /\ row.activationStatus = "Activated"

RECURSIVE SumOf(_, _)
SumOf(rows, field) ==
    IF rows = <<>> THEN 0 ELSE rows[1][field] + SumOf(Tail(rows), field)

\* Mutant of totalFinalStake: the stakes before penalty and multiplier are summed.
totalOriginalStake(rows) == SumOf(rows, "originalStake")

\* detailedAccounts.reduce((acc, account) => acc + account.finalStake, 0)
totalFinalStake(rows) == SumOf(rows, "finalStake")

getStakeAccounts(currentEpoch, accounts) ==
    LET detailed == [i \in 1..Len(accounts) |-> Detail(accounts[i], i, currentEpoch)]
        detailedAccounts == SelectSeq(detailed, IsEligible)
        total == totalFinalStake(detailedAccounts)
    IN  [i \in 1..Len(detailedAccounts) |->
            detailedAccounts[i] @@
            [rewardShare |-> Quotient(detailedAccounts[i].finalStake, total, 100),
             rewardAmount |-> Quotient(detailedAccounts[i].finalStake, total,
                                       TOTAL_REWARD_POOL)]]

\* ---- calls of the pure functions ----------------------------------------------
StakeAmounts ==
    {0, 30000, 60000}
      \cup {10000 + d : d \in (0 - MaxDelta)..MaxDelta}
      \cup {50000 + d : d \in (0 - MaxDelta)..MaxDelta}

StakedEpochs == (0 - MaxDelta)..MaxStaked

RawAccounts ==
    [stake : {0, 5000, 60000},
     activation : {Undefined, "0", ToString(MaxStaked - 4)},
     deactivation : {NeverDeactivated, "7"}]

AccountLists == UNION {[1..n -> RawAccounts] : n \in 0..MaxAccounts}

FnCalls ==
    [fn : {"calculatePenaltyRate"}, args : StakeAmounts \X StakeAmounts]
      \cup [fn : {"calculateMultiplier"}, args : StakedEpochs \X StakedEpochs]
      \cup [fn : {"getStakeAccounts"}, currentEpoch : {MaxStaked},
            accounts : AccountLists]

FnInit ==
    /\ chainEpoch = 0
    /\ lastProcessedEpoch = Null
    /\ files = {}
    /\ started = {}
    /\ ticks = EmptyBag
    /\ channel = Null
    /\ event = NoEvent
    /\ skipped = {}
    /\ today = 0
    /\ lastHeartbeatDay = Null
    /\ beats = EmptyBag
    /\ heartbeats = {}
    /\ cmds = EmptyBag
    /\ fnIn \in FnCalls
    /\ fnOut = Null

\* the function is applied to each of the two arguments
CallPenaltyRate ==
    /\ fnIn.fn = "calculatePenaltyRate"
    /\ fnOut = Null
    /\ fnOut' = Some(<<calculatePenaltyRate(fnIn.args[1]),
                       calculatePenaltyRate(fnIn.args[2])>>)
    /\ UNCHANGED <<fnIn, monitorVars, heartbeatVars, commandVars, channel, event>>

CallMultiplier ==
    /\ fnIn.fn = "calculateMultiplier"
    /\ fnOut = Null
    /\ fnOut' = Some(<<calculateMultiplier(fnIn.args[1]),
                       calculateMultiplier(fnIn.args[2])>>)
    /\ UNCHANGED <<fnIn, monitorVars, heartbeatVars, commandVars, channel, event>>

CallGetStakeAccounts ==
    /\ fnIn.fn = "getStakeAccounts"
    /\ fnOut = Null
    /\ fnOut' = Some(getStakeAccounts(fnIn.currentEpoch, fnIn.accounts))
    /\ UNCHANGED <<fnIn, monitorVars, heartbeatVars, commandVars, channel, event>>

FnNext ==
    \/ CallPenaltyRate
    \/ CallMultiplier
    \/ CallGetStakeAccounts

FnSpec == FnInit /\ [][FnNext]_vars

\* ---- properties ---------------------------------------------------------------
Range(s) == {s[i] : i \in 1..Len(s)}

\* the steps of a cycle without the error notice of its catch block
MainSteps(r) == SelectSeq(r.steps, LAMBDA x : x # "notice")

\* a report cycle ended in the last step (it returned or it threw)
CycleEnded == event.act \in {"reported", "cycleThrew"}

\* the cycle of the call r delivered the whole report
FullReport(r) == {"message", "file"} \subseteq r.delivered

\* the cycle of the call r wrote its artifact file
WroteFile(r) == "write" \in Range(r.steps) /\ r.failedStep # "write"

\* C1: generateAndSendReport is started at most once for any epoch number:
\* no step starts a cycle for an epoch a cycle was already started for.
C1_AtMostOncePerEpoch ==
    [][event'.act = "start" => Val(event'.tick.epoch) \notin started]_vars

\* C2: a tick that observed epoch N+1 while lastProcessedEpoch was N ran exactly
\* one report cycle, for N, and when it completes lastProcessedEpoch = N+1.
C2_NextEpochAdvances ==
    (/\ CycleEnded
     /\ Val(event.tick.currentEpoch) = Val(event.tick.epoch) + 1)
    => /\ Len(SelectSeq(event.tick.steps, LAMBDA x : x = "snapshot")) = 1
       /\ lastProcessedEpoch = event.tick.currentEpoch

\* C3: while lastProcessedEpoch is null no report cycle is pending or was ever
\* started, and the tick whose epoch query is answered then records the observed
\* epoch and returns without starting a cycle or sending anything.
C3_FirstTickRecordsOnly ==
    /\ [](lastProcessedEpoch = Null => (InCycle = {} /\ started = {}))
    /\ [][(lastProcessedEpoch = Null /\ event'.act \notin {"step", "queryFailed"})
            => /\ event'.act = "initial"
               /\ Val(event'.tick.currentEpoch) \in Epochs
               /\ lastProcessedEpoch' = event'.tick.currentEpoch
               /\ BagCardinality(ticks') = BagCardinality(ticks) - 1
               /\ InCycle' = {}
               /\ started' = started
               /\ channel' = Null]_vars

C3_Witness ==
    /\ event.act = "initial"
    /\ lastProcessedEpoch = event.tick.currentEpoch
    /\ Val(lastProcessedEpoch) > 0
    /\ started = {}

\* C4: in Tracking, a tick that observes an epoch equal to or lower than
\* lastProcessedEpoch starts no cycle, sends nothing, writes no file and leaves
\* lastProcessedEpoch unchanged.
C4_NoChangeIsNoOp ==
    [][(/\ lastProcessedEpoch # Null
        /\ event'.act \in {"start", "noChange"}
        /\ Val(event'.tick.currentEpoch) <= Val(lastProcessedEpoch))
         => /\ event'.act = "noChange"
            /\ BagCardinality(ticks') = BagCardinality(ticks) - 1
            /\ InCycle' = InCycle
            /\ started' = started
            /\ channel' = Null
            /\ files' = files
            /\ lastProcessedEpoch' = lastProcessedEpoch]_vars

\* a tick was answered with an epoch lower than lastProcessedEpoch (its answer
\* was overtaken by a later tick's) and did nothing
C4_Witness ==
    /\ event.act = "noChange"
    /\ Val(event.tick.currentEpoch) < Val(lastProcessedEpoch)

\* C5: when a tick that started a report cycle completes, lastProcessedEpoch is
\* the epoch that tick observed, whatever the outcome of the cycle.
C5_AdvanceUnconditional ==
    CycleEnded => lastProcessedEpoch = event.tick.currentEpoch

\* C6: generateAndSendReport never propagates a failure to its caller.
C6_CycleNeverThrows == event.act # "cycleThrew"

\* C7: whenever a report cycle ends, the artifact file it wrote no longer exists.
C7_ArtifactDeleted ==
    (CycleEnded /\ WroteFile(event.tick)) => Val(event.tick.epoch) \notin files

\* C8: the steps of a cycle are a prefix of snapshot, write, message, file,
\* delete; the file is sent only after the message was delivered; and the step
\* that failed is the last of these steps the cycle attempted.
OrderKept(r) ==
    /\ Len(MainSteps(r)) <= Len(FixedOrder)
    /\ MainSteps(r) = SubSeq(FixedOrder, 1, Len(MainSteps(r)))
    /\ ("file" \in Range(r.steps) => "message" \in r.delivered)
    /\ (r.failedStep # "none" =>
           /\ MainSteps(r) # <<>>
           /\ MainSteps(r)[Len(MainSteps(r))] = r.failedStep
           /\ r.steps = Append(MainSteps(r), "notice"))
    /\ (r.failedStep = "none" => "notice" \notin Range(r.steps))

C8_FixedStepOrder ==
    /\ \A r \in Pending : OrderKept(r)
    /\ OrderKept(event.tick)

C8_Witness ==
    /\ CycleEnded
    /\ event.tick.failedStep = "message"
    /\ event.tick.steps = <<"snapshot", "write", "message", "notice">>

\* C9 as claimed: every cycle that ends has delivered the whole report or an
\* error notice.
C9_ReportOrNotice ==
    CycleEnded => (FullReport(event.tick) \/ "notice" \in event.tick.delivered)

\* C9 amended: a cycle that returns has just delivered the artifact file of the
\* whole report or the error notice for its epoch to the channel; a cycle ends
\* with neither only when the delivery of its error notice was attempted and
\* failed.
C9_ReportOrNoticeAttempted ==
    /\ event.act = "reported" =>
          \/ /\ FullReport(event.tick)
             /\ channel = Some(<<"file", Val(event.tick.epoch)>>)
          \/ /\ "notice" \in event.tick.delivered
             /\ channel = Some(<<"notice", Val(event.tick.epoch)>>)
    /\ event.act = "cycleThrew" =>
          /\ event.tick.failedStep # "none"
          /\ event.tick.steps[Len(event.tick.steps)] = "notice"
          /\ "notice" \notin event.tick.delivered
          /\ channel = Null

C9_Witness ==
    /\ event.act = "cycleThrew"
    /\ event.tick.failedStep = "file"
    /\ event.tick.delivered = {"message"}

\* C10: the monitor loop never stops (a tick is polling the epoch again and
\* again), and whenever the chain's epoch exceeds lastProcessedEpoch a report
\* cycle is eventually running.
EpochGap == lastProcessedEpoch # Null /\ chainEpoch > Val(lastProcessedEpoch)

C10_LoopKeepsReporting ==
    /\ []<>(\E r \in Pending : r.pc = "epochInfo")
    /\ (EpochGap ~> (InCycle # {}))

\* a cycle starts for an epoch whose earlier cycle failed and left its file
C10_Witness ==
    /\ event.act = "start"
    /\ EpochGap
    /\ BagCardinality(ticks) = 1
    /\ Val(event.tick.epoch) \in files

\* ---- the chain source answers in order ------------------------------------
\* Every answer of connection.getEpochInfo() to a tick is the epoch the chain
\* has when the answer arrives, so the answers never decrease.
FreshAnswer == event'.tick.currentEpoch = Some(chainEpoch)

MonoNext ==
    \/ ChainAdvance
    \/ TickFire
    \/ \E r \in Pending : EpochInfoOk(r) /\ FreshAnswer
    \/ \E r \in Pending : EpochInfoFail(r)
    \/ \E r \in Pending : SnapEpochOk(r)
    \/ \E r \in Pending : SnapEpochFail(r)
    \/ \E r \in Pending : SnapAccountsOk(r)
    \/ \E r \in Pending : SnapAccountsFail(r)
    \/ \E r \in Pending : SendMsgOk(r)
    \/ \E r \in Pending : SendMsgFail(r)
    \/ \E r \in Pending : SendFileOk(r)
    \/ \E r \in Pending : SendFileFail(r)
    \/ \E r \in Pending : SendErrOk(r)
    \/ \E r \in Pending : SendErrFail(r)

MonoSpec == Init /\ [][MonoNext]_vars

\* the tick of the call r observed an epoch beyond the one after the epoch its
\* report cycle is labelled with
Jumped(r) == Val(r.currentEpoch) > Val(r.epoch) + 1

\* C18: no backfill: a tick that observes an epoch E > lastProcessedEpoch + 1
\* starts exactly one report cycle, labelled with the old lastProcessedEpoch;
\* when that tick completes lastProcessedEpoch is E; and no report cycle is ever
\* started for an epoch some tick passed over.
C18_NoBackfill ==
    /\ [][event'.act = "start" =>
            /\ event'.tick.epoch = lastProcessedEpoch
            /\ started' = started \cup {Val(lastProcessedEpoch)}
            /\ BagCardinality(ticks') = BagCardinality(ticks)
            /\ Val(event'.tick.epoch) \notin skipped']_vars
    /\ []((CycleEnded /\ Jumped(event.tick))
            => lastProcessedEpoch = event.tick.currentEpoch)

\* C19: the chain source answering in order, lastProcessedEpoch never decreases
\* once it is set.
C19_NeverDecreases ==
    [][lastProcessedEpoch # Null
         => /\ lastProcessedEpoch' # Null
            /\ Val(lastProcessedEpoch') >= Val(lastProcessedEpoch)]_vars

\* C11: at most one heartbeat message is delivered per calendar day: no step
\* delivers a heartbeat for a day a heartbeat was already delivered for.
C11_OneHeartbeatPerDay ==
    [][event'.act = "hbSent" => event'.tick.currentDay \notin heartbeats]_vars

\* C20: lastHeartbeatDay changes only in the step that delivers the heartbeat
\* message, and then to the day of that call; a call that fails on its epoch
\* query or on its delivery leaves it unchanged and delivers nothing; and a
\* heartbeat tick returns without an attempt only when lastHeartbeatDay is the
\* current day, so after a failure the next tick of that day attempts again.
C20_DayRecordedAfterDelivery ==
    [][/\ lastHeartbeatDay' # lastHeartbeatDay
            => /\ event'.act = "hbSent"
               /\ channel' = Some(<<"heartbeat", event'.tick.currentDay>>)
               /\ lastHeartbeatDay' = Some(event'.tick.currentDay)
       /\ event'.act = "hbFailed"
            => /\ lastHeartbeatDay' = lastHeartbeatDay
               /\ channel' = Null
               /\ heartbeats' = heartbeats
       /\ event'.act = "hbSkipped" => lastHeartbeatDay = Some(today)]_vars

\* the only heartbeat call of the day failed on its delivery: the day is not
\* recorded, and the next tick will attempt the heartbeat again
C20_Witness ==
    /\ event.act = "hbFailed"
    /\ event.tick.pc = "send"
    /\ event.tick.currentDay = today
    /\ today > 0
    /\ lastHeartbeatDay = Some(today - 1)
    /\ beats = EmptyBag

\* C12: lastProcessedEpoch is written only by the epoch-check tick and
\* lastHeartbeatDay only by the heartbeat tick: no step of an epoch-check tick
\* or of its report cycle changes lastHeartbeatDay, no step of a heartbeat tick
\* changes lastProcessedEpoch, and no step of the /id and /status handlers
\* changes either.
C12_WrittenByOwnerOnly ==
    [][/\ ticks' # ticks => lastHeartbeatDay' = lastHeartbeatDay
       /\ (beats' # beats \/ event'.act = "hbSkipped")
            => lastProcessedEpoch' = lastProcessedEpoch
       /\ (cmds' # cmds \/ event'.act = "id")
            => /\ lastProcessedEpoch' = lastProcessedEpoch
               /\ lastHeartbeatDay' = lastHeartbeatDay
       /\ lastProcessedEpoch' # lastProcessedEpoch => ticks' # ticks
       /\ lastHeartbeatDay' # lastHeartbeatDay => beats' # beats]_vars

\* a heartbeat was delivered while a report cycle and a /status handler were
\* suspended, and both variables hold what their owners wrote
C12_Witness ==
    /\ event.act = "hbSent"
    /\ lastHeartbeatDay = Some(today)
    /\ lastProcessedEpoch = Some(1)
    /\ InCycle # {}
    /\ \E c \in PendingCmds : c.pc = "reply" /\ c.shown = lastProcessedEpoch

\* ---- the reward table ------------------------------------------------------------
\* getStakeAccounts returned the table
TableBuilt == fnIn.fn = "getStakeAccounts" /\ fnOut # Null

Table == Val(fnOut)

\* the value of the quotient q is a number, and it is 0
IsZero(q) == q.den # 0 /\ q.num = 0

\* The quotients in the column field have one denominator and their sum is n:
\* times * (num_1 + ... + num_k) / den = n, where times = n.
SumsTo(rows, field, n) ==
    LET nums == [i \in 1..Len(rows) |-> [x |-> rows[i][field].num]]
    IN  /\ \A i \in 1..Len(rows) :
             /\ rows[i][field].times = n
             /\ rows[i][field].den = rows[1][field].den
        /\ rows[1][field].den # 0
        /\ SumOf(nums, "x") = rows[1][field].den

\* the positions of the eligible accounts in the chain's answer
EligibleInputs ==
    {i \in 1..Len(fnIn.accounts) :
        /\ fnIn.accounts[i].deactivation = NeverDeactivated
        /\ fnIn.accounts[i].activation # Undefined}

\* C13 as claimed: in every reward table with at least one row the reward
\* shares sum to 100 and the reward amounts to TOTAL_REWARD_POOL.
C13_SharesSumToWhole ==
    (TableBuilt /\ Len(Table) >= 1)
        => /\ SumsTo(Table, "rewardShare", 100)
           /\ SumsTo(Table, "rewardAmount", TOTAL_REWARD_POOL)

\* C13 amended: in every reward table with at least one row of non-zero final
\* stake the reward shares sum to 100 and the reward amounts to
\* TOTAL_REWARD_POOL.
C13_SharesSumToWholeIfStaked ==
    (TableBuilt /\ \E i \in 1..Len(Table) : Table[i].finalStake > 0)
        => /\ SumsTo(Table, "rewardShare", 100)
           /\ SumsTo(Table, "rewardAmount", TOTAL_REWARD_POOL)

\* three eligible accounts of different penalty tiers and multipliers, one of
\* them without stake
C13_Witness ==
    /\ TableBuilt
    /\ Len(Table) = 3
    /\ {Table[i].finalStake : i \in 1..3} = {0, 5000 * 100 * 14, 60000 * 90 * 10}

\* C14: whenever the final stakes of a table sum to 0, every reward share and
\* every reward amount of the table is the number 0.
C14_ZeroTotalZeroShares ==
    (TableBuilt /\ SumOf(Table, "finalStake") = 0)
        => \A i \in 1..Len(Table) :
              IsZero(Table[i].rewardShare) /\ IsZero(Table[i].rewardAmount)

\* C15: the rows of the table are the eligible accounts of the answer, in the
\* order of the answer; every row is Active and Activated; and the denominator
\* of every share is the sum of the final stakes of these rows.
C15_OnlyEligibleInOrder ==
    TableBuilt
        => /\ Len(Table) = Cardinality(EligibleInputs)
           /\ \A i \in 1..Len(Table) :
                /\ Table[i].address \in EligibleInputs
                /\ Table[i].status = "Active"
                /\ Table[i].activationStatus = "Activated"
                /\ Table[i].originalStake = fnIn.accounts[Table[i].address].stake
                /\ Table[i].rewardShare.den = SumOf(Table, "finalStake")
                /\ Table[i].rewardAmount.den = SumOf(Table, "finalStake")
                /\ \A j \in 1..Len(Table) :
                     i < j => Table[i].address < Table[j].address

\* a pending, an eligible and an inactive account: one row, the second account
C15_Witness ==
    /\ TableBuilt
    /\ Len(fnIn.accounts) = 3
    /\ fnIn.accounts[1].activation = Undefined
    /\ fnIn.accounts[1].deactivation = NeverDeactivated
    /\ fnIn.accounts[3].deactivation # NeverDeactivated
    /\ fnIn.accounts[3].activation # Undefined
    /\ Len(Table) = 1
    /\ Table[1].address = 2
    /\ Table[1].finalStake > 0

\* ---- the reward model ------------------------------------------------------------
\* C16: calculatePenaltyRate returns 0, 5 or 10, is non-decreasing, and returns
\* 0 up to 10000, 5 above 10000 up to 50000, and 10 above 50000.
C16_PenaltyTiers ==
    (fnIn.fn = "calculatePenaltyRate" /\ fnOut # Null)
        => LET a == fnIn.args[1]
               b == fnIn.args[2]
               ra == Val(fnOut)[1]
               rb == Val(fnOut)[2]
           IN  /\ ra \in {0, 5, 10}
               /\ a <= b => ra <= rb
               /\ a <= 10000 => ra = 0
               /\ (a > 10000 /\ a <= 50000) => ra = 5
               /\ a > 50000 => ra = 10

C16_Witness ==
    /\ fnIn.fn = "calculatePenaltyRate"
    /\ fnIn.args = <<10000, 50000>>
    /\ fnOut = Some(<<0, 5>>)

\* C17: calculateMultiplier is non-decreasing and returns 1.4 from 15 on, 1.2
\* from 10 to 14, 1.1 from 6 to 9, and 1.0 below 6 (in tenths).
C17_MultiplierTiers ==
    (fnIn.fn = "calculateMultiplier" /\ fnOut # Null)
        => LET a == fnIn.args[1]
               b == fnIn.args[2]
               ra == Val(fnOut)[1]
               rb == Val(fnOut)[2]
           IN  /\ a <= b => ra <= rb
               /\ a >= 15 => ra = 14
               /\ (a >= 10 /\ a <= 14) => ra = 12
               /\ (a >= 6 /\ a <= 9) => ra = 11
               /\ a < 6 => ra = 10

C17_Witness ==
    /\ fnIn.fn = "calculateMultiplier"
    /\ fnIn.args = <<0 - 1, 15>>
    /\ fnOut = Some(<<10, 14>>)

====
